---- MODULE Spec2Model ----
(***************************************************************************)
(* The capture pipeline of the OpenSecure extension: the Storage           *)
(* singleton (hosts -> endpoints -> method -> list of exchanges), its      *)
(* persistence and change listeners, the extension commands that touch     *)
(* code references, and the POST /burp-data handler with its await points. *)
(***************************************************************************)
EXTENDS Integers, Sequences, FiniteSets, TLC

(* ------------------------------ bounds -------------------------------- *)
\* last instant of the millisecond clock read by new Date()
MaxTime == 1
\* code references one exchange may carry
MaxRefs == 1
\* change listeners that may be registered
MaxListeners == 2
\* payloads the ingestion endpoint accepts in one run; the index never holds
\* more exchanges than that
MaxPayloads == 2

(* --------------------------- JS value domain --------------------------- *)
\* a property that is not set (JS undefined); JSON.stringify omits it.
\* Absent stands in string-valued places, Undefined in object-valued ones;
\* an array is kept as [items |-> sequence] where it may also be undefined
Absent == "<undefined>"
Undefined == [undefined |-> TRUE]
\* JS null, in string-valued and in object-valued places
Null == "<null>"
NullObject == [null |-> TRUE]
\* an object with no keys
EmptyMap == [k \in {} |-> Absent]

Put(f, k, v) == [x \in (DOMAIN f) \cup {k} |-> IF x = k THEN v ELSE f[x]]
Remove(f, k) == [x \in (DOMAIN f) \ {k} |-> f[x]]

\* Array.prototype.splice(i, 1): a negative i counts from the end, and an i
\* beyond the length removes nothing
SpliceOne(s, i) ==
  LET n == Len(s)
      start == IF i < 0 THEN (IF n + i < 0 THEN 0 ELSE n + i)
               ELSE (IF i > n THEN n ELSE i)
  IN  [k \in 1..(IF start < n THEN n - 1 ELSE n) |->
         IF k <= start THEN s[k] ELSE s[k + 1]]

\* arr[i] for a zero-based i: undefined outside the array
At(s, i) == IF i >= 0 /\ i < Len(s) THEN s[i + 1] ELSE Undefined

(* ------------------------------ inputs -------------------------------- *)
\* request targets as the proxy sends them, one character per element
UrlA   == <<"/", "a">>
UrlAx  == <<"/", "a", "?", "x">>
UrlAy  == <<"/", "a", "?", "y">>
UrlB   == <<"/", "b", "#", "f">>
Urls   == {UrlA, UrlAx, UrlAy, UrlB}
\* values of the Host header: present, absent ('' from the parser), and one
\* that new URL() rejects
GoodHost == "a.com"
BadHost  == "a b"
HostHeaders == {GoodHost, "", BadHost}
Methods == {"GET", "POST"}
\* request bodies: none, JSON with operationName, text that is not JSON
OpBody == "{\"operationName\":\"op\"}"
Bodies == {Absent, OpBody, "text"}
NoteTexts == {"", "n"}
Names == {"renamed"}

RECURSIVE TakeUntil(_, _)
TakeUntil(s, stops) ==
  IF s = <<>> \/ Head(s) \in stops THEN <<>>
  ELSE <<Head(s)>> \o TakeUntil(Tail(s), stops)

\* new URL(url, `http://${host}`).pathname for an origin-form target: the
\* characters before the first '?' or '#'
PathnameKeepsQuery(url) == url
Pathname(url) == TakeUntil(url, {"?", "#"})

\* new URL() throws on a base whose host is not a valid host
UrlThrows(host) == host = BadHost

Paths == {Pathname(u) : u \in Urls}
HostKeys == {GoodHost, "unknown-host"}

\* storage locations: the workspace default and a folder chosen elsewhere
LocA == "${workspaceFolder}/.opensecure"
LocB == "/elsewhere"
Locations == {LocA, LocB}

\* the port createServer is asked for, and the ports of the model
PreferredPort == 3700
PortSpan == 4
Ports == PreferredPort..(PreferredPort + PortSpan)

(* ------------------------------- state -------------------------------- *)
VARIABLES
  hosts,            \* Storage.hosts: the hierarchical index
  initialized,      \* Storage.initialized
  changeListeners,  \* Storage.changeListeners: "ok" or "throws" per listener
  disk,             \* content of the data file at the configured location:
                    \* Undefined or the JSON document
  status,           \* what saveData last showed in the status bar
  now,              \* the instant new Date() returns
  activated,        \* activate() has run
  lastRun,          \* listeners invoked by the last notifyListeners, in order
  lastCount,        \* listeners registered when it was called
  handlers,         \* POST /burp-data invocations, by arrival number
  microtasks,       \* handlers whose awaited promise is settled, FIFO
  arrived,          \* payloads accepted so far
  validation,       \* the openSecure.validateCodeReference call in flight
  outcome,          \* how the last call of an index operation ended
  config,           \* the location getStoragePath() resolves to
  storagePath,      \* Storage.storagePath, Null before initialize()
  elsewhere,        \* content of the data file at the other location
  panel,            \* the open request panel, or Undefined
  occupied,         \* ports other processes listen on
  probing,          \* the port findAvailablePort tries, or its result
  listening         \* createServer: "no", "probing", "found", "yes", "failed"

vars == <<hosts, initialized, changeListeners, disk, status, now, activated,
          lastRun, lastCount, handlers, microtasks, arrived, validation, outcome,
          config, storagePath, elsewhere, panel, occupied, probing, listening>>

indexVars == <<hosts, disk, status, lastRun, lastCount>>
storeVars == <<indexVars, outcome>>
serverVars == <<handlers, microtasks, arrived>>
locationVars == <<config, storagePath, elsewhere>>
portVars == <<occupied, probing, listening>>
appVars == <<initialized, changeListeners, now, activated, validation, locationVars,
             panel, portVars>>

(* ----------------------------- the index ------------------------------ *)
\* Object.keys(endpointObject): 'notes' when set, and the method keys
ObjectKeys(ep) == (IF ep.notes = Absent THEN {} ELSE {"notes"}) \cup DOMAIN ep.methods

HasHost(h) == h \in DOMAIN hosts
HasEndpoint(h, e) == HasHost(h) /\ e \in DOMAIN hosts[h].endpoints
HasMethod(h, e, m) == HasEndpoint(h, e) /\ m \in DOMAIN hosts[h].endpoints[e].methods
Bucket(h, e, m) == hosts[h].endpoints[e].methods[m]
\* hosts[h] && endpoints[e] && [m] && [m][index]
Resolves(h, e, m, i) == HasMethod(h, e, m) /\ At(Bucket(h, e, m), i) # Undefined

SetBucket(hs, h, e, m, b) ==
  [hs EXCEPT ![h].endpoints[e].methods =
     Put(hs[h].endpoints[e].methods, m, b)]

RECURSIVE SumOver(_, _)
SumOver(S, f) ==
  IF S = {} THEN 0
  ELSE LET x == CHOOSE y \in S : TRUE IN f[x] + SumOver(S \ {x}, f)

AllBuckets(hs) ==
  UNION {UNION {{<<h, e, m>> : m \in DOMAIN hs[h].endpoints[e].methods} :
                  e \in DOMAIN hs[h].endpoints} :
         h \in DOMAIN hs}

\* the exchanges of an index
AllExchanges(hs) ==
  UNION {{hs[b[1]].endpoints[b[2]].methods[b[3]][i] :
            i \in 1..Len(hs[b[1]].endpoints[b[2]].methods[b[3]])} :
         b \in AllBuckets(hs)}

TotalExchanges(hs) ==
  SumOver(AllBuckets(hs),
          [b \in AllBuckets(hs) |-> Len(hs[b[1]].endpoints[b[2]].methods[b[3]])])

(* ---------------------------- persistence ----------------------------- *)
\* new Date(): the Date object of the current instant
NewDate == [ms |-> now]
\* Date.prototype.getTime()
GetTime(d) == d.ms

\* Date.prototype.toJSON: the ISO-8601 string of the instant
ToISOString(d) == [iso |-> d.ms]
\* new Date(isoString)
ParseDate(s) == [ms |-> s.iso]

SerializeExchange(x) ==
  IF "timestamp" \in DOMAIN x THEN [x EXCEPT !.timestamp = ToISOString(x.timestamp)] ELSE x

\* JSON.stringify(this.hosts, null, 2): the same tree, Dates as ISO strings
Serialize(hs) ==
  [h \in DOMAIN hs |->
    [endpoints |->
      [e \in DOMAIN hs[h].endpoints |->
        [notes |-> hs[h].endpoints[e].notes,
         methods |->
           [m \in DOMAIN hs[h].endpoints[e].methods |->
             [i \in 1..Len(hs[h].endpoints[e].methods[m]) |->
                SerializeExchange(hs[h].endpoints[e].methods[m][i])]]]]]]

\* what a write that failed part-way leaves in the file
Truncated == [truncated |-> TRUE]
\* a data file that exists and that readFileSync cannot read
Unreadable == [unreadable |-> TRUE]
\* a data file written by something else: JSON of the layout of the index
\* whose one exchange is an object without any member of an exchange
ForeignDocument ==
  [h \in {GoodHost} |->
    [endpoints |->
      [e \in {Pathname(UrlA)} |->
        [notes |-> Absent,
         methods |-> [m \in {"GET"} |-> <<[foreign |-> TRUE]>>]]]]]

saveDataHidesFailure(ok) ==
  /\ disk' \in (IF ok THEN {Serialize(hosts')} ELSE {disk, Truncated})
  /\ status' = "saved"
\* saveData(): writes the whole index; a failed write is caught and shown, and
\* it leaves the file as it was or cut short
saveData(ok) ==
  /\ disk' \in (IF ok THEN {Serialize(hosts')} ELSE {disk, Truncated})
  /\ status' = IF ok THEN "saved" ELSE "error"

(* ----------------------------- listeners ------------------------------ *)
RECURSIVE RunUntilThrow(_, _)
RunUntilThrow(ls, i) ==
  IF i > Len(ls) THEN <<>>
  ELSE IF ls[i] = "throws" THEN <<i>>
  ELSE <<i>> \o RunUntilThrow(ls, i + 1)

\* changeListeners.forEach(listener => listener()): the first exception
\* leaves forEach
ListenersRun(ls) == RunUntilThrow(ls, 1)
NotifyThrows(ls) == \E i \in 1..Len(ls) : ls[i] = "throws"

notifyListeners ==
  /\ lastRun' = ListenersRun(changeListeners)
  /\ lastCount' = Len(changeListeners)

(* --------------------------- code references -------------------------- *)
\* selected source text, as character codes
TextOne == <<99, 49>>
TextTwo == <<99, 50>>
Texts == {TextOne, TextTwo}

\* document.getText(new Range(startLine, 0, endLine, <end of line>)): the
\* whole lines a selection lies in. TextOne is selected as a whole line,
\* TextTwo inside the line " c2;"
LineTwo == <<32, 99, 50, 59>>
LinesOf(text) == IF text = TextTwo THEN LineTwo ELSE text
\* what the line range of a reference may hold when it is read again
FileTexts == {LinesOf(text) : text \in Texts}

\* one round of the loop: hash = (hash << 5) - hash + char; hash = hash & hash.
\* The result is hash * 31 + char wrapped to a signed 32-bit integer, computed
\* on 16-bit halves
HashStep(hash, char) ==
  LET lo == hash % 65536
      hi == ((hash - lo) \div 65536) % 65536
      l2 == lo * 31 + char
      h2 == (hi * 31 + (l2 \div 65536)) % 65536
  IN  (IF h2 >= 32768 THEN h2 - 65536 ELSE h2) * 65536 + (l2 % 65536)

RECURSIVE HashFrom(_, _, _)
HashFrom(text, i, hash) ==
  IF i > Len(text) THEN hash
  ELSE HashFrom(text, i + 1, HashStep(hash, text[i]))

\* calculateChecksum(text); the hex string is kept as the integer it prints
calculateChecksum(text) == HashFrom(text, 1, 0)

\* the codeRef object built by openSecure.addCodeReference
NewCodeRef(text) ==
  [text |-> text, checksum |-> calculateChecksum(text), isValid |-> TRUE,
   invalidReason |-> Absent, validatedAt |-> Undefined]

(* ------------------------------ Storage ------------------------------- *)
\* the call returned value (Undefined for a method without return value)
Returns(value) == outcome' = [threw |-> FALSE, returned |-> value]
\* the call ended with an exception
Throws == outcome' = [threw |-> TRUE, returned |-> Undefined]
\* the end of a call whose last statement before the return is
\* this.notifyListeners()
AfterNotify(value) ==
  IF NotifyThrows(changeListeners) THEN Throws ELSE Returns(value)

\* the length of a notes text
StringLength(text) == IF text = "" THEN 0 ELSE 1

\* endpoint[method][index] when method is 'notes', the key under which the
\* endpoint object holds its notes text: a character of the text, truthy
NotesSlot(h, e, m, i) ==
  /\ HasEndpoint(h, e)
  /\ m = "notes"
  /\ hosts[h].endpoints[e].notes # Absent
  /\ 0 <= i
  /\ i < StringLength(hosts[h].endpoints[e].notes)

\* the customName addRequest reads from a JSON body's operationName
OperationName(body) == IF body = OpBody THEN "op" ELSE Absent

HostOf(data) == IF data.request.host = "" THEN "unknown-host" ELSE data.request.host

\* the object addRequest pushes: data with timestamp, notes and customName
Stamped(data) ==
  [request |-> data.request, response |-> data.response,
   timestamp |-> NewDate, notes |-> "",
   customName |-> OperationName(data.request.body),
   codeReferences |-> Undefined]

\* the endpoint object addRequest creates
NewEndpoint == [notes |-> Absent, methods |-> EmptyMap]

WithBuckets(hs, h, e, m) ==
  LET h1 == IF h \in DOMAIN hs THEN hs ELSE Put(hs, h, [endpoints |-> EmptyMap])
      e1 == IF e \in DOMAIN h1[h].endpoints THEN h1
            ELSE [h1 EXCEPT ![h].endpoints = Put(h1[h].endpoints, e, NewEndpoint)]
  IN  IF m \in DOMAIN e1[h].endpoints[e].methods THEN e1
      ELSE SetBucket(e1, h, e, m, <<>>)

AddRequestThrows(data) ==
  UrlThrows(HostOf(data)) \/ NotifyThrows(changeListeners)

\* Storage.addRequest(data)
addRequestAtFront(data, ok) ==
  LET host == HostOf(data)
      endpoint == Pathname(data.request.url)
      method == data.request.method
      hs == WithBuckets(hosts, host, endpoint, method)
  IN  IF UrlThrows(host) THEN UNCHANGED indexVars /\ Throws
      ELSE /\ hosts' = SetBucket(hs, host, endpoint, method,
                         <<Stamped(data)>> \o hs[host].endpoints[endpoint].methods[method])
           /\ saveData(ok)
           /\ notifyListeners
           /\ AfterNotify(Undefined)
addRequest(data, ok) ==
  LET host == HostOf(data)
      endpoint == Pathname(data.request.url)
      method == data.request.method
      hs == WithBuckets(hosts, host, endpoint, method)
  IN  IF UrlThrows(host) THEN UNCHANGED indexVars /\ Throws
      ELSE /\ hosts' = SetBucket(hs, host, endpoint, method,
                         Append(hs[host].endpoints[endpoint].methods[method],
                                Stamped(data)))
           /\ saveData(ok)
           /\ notifyListeners
           /\ AfterNotify(Undefined)

\* Storage.updateRequestNotes(host, endpoint, method, index, notes)
updateRequestNotes(h, e, m, i, notes, ok) ==
  IF Resolves(h, e, m, i)
  THEN /\ hosts' = [hosts EXCEPT ![h].endpoints[e].methods[m][i + 1].notes = notes]
       /\ saveData(ok)
       /\ notifyListeners
       /\ AfterNotify(Undefined)
  ELSE /\ UNCHANGED indexVars
       /\ IF NotesSlot(h, e, m, i) THEN Throws ELSE Returns(Undefined)

\* Storage.updateEndpointNotes(host, endpoint, notes)
updateEndpointNotes(h, e, notes, ok) ==
  IF HasEndpoint(h, e)
  THEN /\ hosts' = [hosts EXCEPT ![h].endpoints[e].notes = notes]
       /\ saveData(ok)
       /\ notifyListeners
       /\ AfterNotify(Undefined)
  ELSE UNCHANGED indexVars /\ Returns(Undefined)

clearDataNotSaved(ok) ==
  /\ hosts' = EmptyMap
  /\ UNCHANGED <<disk, status>>
  /\ notifyListeners
  /\ AfterNotify(Undefined)
\* Storage.clearData()
clearData(ok) ==
  /\ hosts' = EmptyMap
  /\ saveData(ok)
  /\ notifyListeners
  /\ AfterNotify(Undefined)

\* Storage.addCodeReference(host, endpoint, method, requestIndex, codeRef)
addCodeReference(h, e, m, i, codeRef, ok) ==
  IF Resolves(h, e, m, i)
  THEN LET refs == Bucket(h, e, m)[i + 1].codeReferences
           list == IF refs = Undefined THEN <<>> ELSE refs.items
       IN  /\ hosts' = [hosts EXCEPT ![h].endpoints[e].methods[m][i + 1].codeReferences =
                          [items |-> Append(list, codeRef)]]
           /\ saveData(ok)
           /\ notifyListeners
           /\ AfterNotify([ref |-> <<h, e, m, i>>])
  ELSE /\ UNCHANGED indexVars
       /\ IF NotesSlot(h, e, m, i) THEN Throws ELSE Returns(NullObject)

\* Storage.removeCodeReference(host, endpoint, method, index, refIndex)
removeCodeReference(h, e, m, i, refIndex, ok) ==
  IF Resolves(h, e, m, i) /\ Bucket(h, e, m)[i + 1].codeReferences # Undefined
  THEN /\ hosts' = [hosts EXCEPT ![h].endpoints[e].methods[m][i + 1].codeReferences =
                      [items |-> SpliceOne(@.items, refIndex)]]
       /\ saveData(ok)
       /\ notifyListeners
       /\ AfterNotify(Undefined)
  ELSE UNCHANGED indexVars /\ Returns(Undefined)

\* Storage.renameRequest(host, endpoint, method, index, newName)
renameRequest(h, e, m, i, newName, ok) ==
  IF Resolves(h, e, m, i)
  THEN /\ hosts' = [hosts EXCEPT ![h].endpoints[e].methods[m][i + 1].customName = newName]
       /\ saveData(ok)
       /\ notifyListeners
       /\ AfterNotify(Undefined)
  ELSE /\ UNCHANGED indexVars
       /\ IF NotesSlot(h, e, m, i) THEN Throws ELSE Returns(Undefined)

\* the three cleanup steps of deleteRequest, after the splice
CascadeCleanup(hs, h, e, m) ==
  LET s1 == IF Len(hs[h].endpoints[e].methods[m]) = 0
            THEN [hs EXCEPT ![h].endpoints[e].methods = Remove(@, m)]
            ELSE hs
      s2 == IF Cardinality(ObjectKeys(s1[h].endpoints[e])) = 0
            THEN [s1 EXCEPT ![h].endpoints = Remove(@, e)]
            ELSE s1
  IN  IF Cardinality(DOMAIN s2[h].endpoints) = 0 THEN Remove(s2, h) ELSE s2

\* Storage.deleteRequest(host, endpoint, method, index)
deleteRequest(h, e, m, i, ok) ==
  IF Resolves(h, e, m, i)
  THEN /\ hosts' = CascadeCleanup(
                     SetBucket(hosts, h, e, m, SpliceOne(Bucket(h, e, m), i)),
                     h, e, m)
       /\ saveData(ok)
       /\ notifyListeners
       /\ AfterNotify(Undefined)
  ELSE /\ UNCHANGED indexVars
       /\ IF NotesSlot(h, e, m, i) THEN Throws ELSE Returns(Undefined)

(* ------------------------- startup and storage ------------------------ *)
DeserializeExchangeKeepsString(x) == x
\* request.timestamp = new Date(request.timestamp)
DeserializeExchange(x) ==
  IF "timestamp" \in DOMAIN x THEN [x EXCEPT !.timestamp = ParseDate(x.timestamp)] ELSE x

\* loadData(): JSON.parse, then every timestamp string back to a Date; a file
\* that cannot be read or does not parse gives the empty index
Deserialize(doc) ==
  IF doc \in {Truncated, Unreadable} THEN EmptyMap ELSE
  [h \in DOMAIN doc |->
    [endpoints |->
      [e \in DOMAIN doc[h].endpoints |->
        [notes |-> doc[h].endpoints[e].notes,
         methods |->
           [m \in DOMAIN doc[h].endpoints[e].methods |->
             [i \in 1..Len(doc[h].endpoints[e].methods[m]) |->
                DeserializeExchange(doc[h].endpoints[e].methods[m][i])]]]]]]

\* Storage.initialize(): loads when directory and file exist, and stays
\* uninitialized otherwise
initialize ==
  IF initialized THEN UNCHANGED <<hosts, initialized, storagePath>>
  ELSE /\ storagePath' = config
       /\ IF disk # Undefined
          THEN hosts' = Deserialize(disk) /\ initialized' = TRUE
          ELSE hosts' = hosts /\ initialized' = FALSE

\* activate(context): storage.initialize(), the status bar item, the tree
\* provider (which registers its change listener) and the server
Activate ==
  /\ ~activated
  /\ activated' = TRUE
  /\ initialize
  /\ changeListeners' = Append(changeListeners, "ok")
  /\ UNCHANGED <<disk, status, now, lastRun, lastCount, serverVars, validation,
                 outcome, config, elsewhere, panel, portVars>>

\* the extension is idle: activated and no continuation is queued
Idle == activated /\ microtasks = <<>>

\* the window is reloaded: the module state is built anew, activate() runs
\* again and a fresh Storage loads the data file
Restart ==
  /\ Idle
  /\ validation = Undefined
  /\ IF disk # Undefined
     THEN hosts' = Deserialize(disk) /\ initialized' = TRUE
     ELSE hosts' = EmptyMap /\ initialized' = FALSE
  /\ changeListeners' = <<"ok">>
  /\ status' = "idle"
  /\ lastRun' = <<>>
  /\ lastCount' = 0
  /\ outcome' = [threw |-> FALSE, returned |-> Undefined]
  /\ storagePath' = config
  /\ panel' = Undefined
  /\ UNCHANGED <<disk, now, activated, validation, serverVars, config, elsewhere,
                 portVars>>

\* openSecure.createStorage -> Storage.createStorage(): writes the current
\* index as the data file and marks the Store initialized
CreateStorage(oks) ==
  /\ Idle
  /\ hosts' = hosts
  /\ \E ok \in oks : saveData(ok)
  /\ initialized' = TRUE
  /\ storagePath' = config
  /\ UNCHANGED <<changeListeners, now, activated, lastRun, lastCount, serverVars, outcome,
                 validation, config, elsewhere, panel, portVars>>

\* Storage.handleConfigChange() when the configuration resolves to loc: on a
\* new location initialized is reset and initialize() runs, which loads the
\* data file found there and otherwise leaves this.hosts as it is
handleConfigChange(loc) ==
  IF loc = storagePath
  THEN UNCHANGED <<hosts, initialized, storagePath, disk, elsewhere>>
  ELSE /\ storagePath' = loc
       /\ disk' = elsewhere
       /\ elsewhere' = disk
       /\ IF elsewhere # Undefined
          THEN hosts' = Deserialize(elsewhere) /\ initialized' = TRUE
          ELSE hosts' = hosts /\ initialized' = FALSE

\* onDidChangeConfiguration with affectsConfiguration('opensecure'): the
\* setting was written, by openSecure.chooseStorageLocation or in the
\* settings editor
ConfigChange ==
  /\ Idle
  /\ validation = Undefined
  /\ \E loc \in Locations :
       /\ config' = loc
       /\ handleConfigChange(loc)
  /\ UNCHANGED <<status, lastRun, lastCount, outcome, changeListeners, now, activated,
                 validation, panel, portVars, serverVars>>

\* time passes
Tick ==
  /\ now < MaxTime
  /\ now' = now + 1
  /\ UNCHANGED <<storeVars, initialized, changeListeners, activated, serverVars,
                 validation, locationVars, panel, portVars>>

\* storage.addChangeListener(listener)
AddChangeListener(kind) ==
  /\ Idle
  /\ Len(changeListeners) < MaxListeners + 1
  /\ changeListeners' = Append(changeListeners, kind)
  /\ UNCHANGED <<storeVars, initialized, now, activated, serverVars, validation,
                 locationVars, panel, portVars>>

(* -------------------------- message parser ---------------------------- *)
\* HTTP_METHODS: the name of method code c is HTTP_METHODS[c + 1]
HTTP_METHODS ==
  <<"DELETE", "GET", "HEAD", "POST", "PUT", "CONNECT", "OPTIONS", "TRACE",
    "COPY", "LOCK", "MKCOL", "MOVE", "PROPFIND", "PROPPATCH", "SEARCH",
    "UNLOCK", "BIND", "REBIND", "UNBIND", "ACL", "REPORT", "MKACTIVITY",
    "CHECKOUT", "MERGE", "M-SEARCH", "NOTIFY", "SUBSCRIBE", "UNSUBSCRIBE",
    "PATCH", "PURGE", "MKCALENDAR", "LINK", "UNLINK">>

\* `UNKNOWN(${code})`
UnknownLabel(code) == "UNKNOWN(" \o ToString(code) \o ")"

\* HTTP_METHODS[info.method] || `UNKNOWN(${info.method})`: a code without an
\* entry reads undefined, and every name of the table is truthy
MethodNameZeroIsFalsy(code) ==
  IF code > 0 /\ code < Len(HTTP_METHODS) THEN HTTP_METHODS[code + 1]
  ELSE UnknownLabel(code)
MethodName(code) ==
  IF code >= 0 /\ code < Len(HTTP_METHODS) THEN HTTP_METHODS[code + 1]
  ELSE UnknownLabel(code)

\* the code the underlying parser reports for a method of the table
MethodCode(name) == CHOOSE code \in 0..(Len(HTTP_METHODS) - 1) : HTTP_METHODS[code + 1] = name

\* String.prototype.toLowerCase on a header name, one character per element
LowerChar(c) ==
  CASE c = "A" -> "a" [] c = "B" -> "b" [] c = "C" -> "c" [] c = "D" -> "d"
    [] c = "E" -> "e" [] c = "F" -> "f" [] c = "G" -> "g" [] c = "H" -> "h"
    [] c = "I" -> "i" [] c = "J" -> "j" [] c = "K" -> "k" [] c = "L" -> "l"
    [] c = "M" -> "m" [] c = "N" -> "n" [] c = "O" -> "o" [] c = "P" -> "p"
    [] c = "Q" -> "q" [] c = "R" -> "r" [] c = "S" -> "s" [] c = "T" -> "t"
    [] c = "U" -> "u" [] c = "V" -> "v" [] c = "W" -> "w" [] c = "X" -> "x"
    [] c = "Y" -> "y" [] c = "Z" -> "z" [] OTHER -> c

RECURSIVE ToLowerCase(_)
ToLowerCase(s) ==
  IF s = <<>> THEN <<>> ELSE <<LowerChar(Head(s))>> \o ToLowerCase(Tail(s))

\* header names on the wire, and the key parsed.headers.host reads
NameHost  == <<"H", "o", "s", "t">>
NameXFoo  == <<"X", "-", "F", "o", "o">>
NameXFooU == <<"X", "-", "F", "O", "O">>
NameXFooL == <<"x", "-", "f", "o", "o">>
KeyHost   == <<"h", "o", "s", "t">>

\* Object.fromEntries over info.headers, a list of <<name, value>>: names
\* lowercased, a later entry of the same key replaces the earlier one
RECURSIVE FromEntries(_, _)
FromEntries(obj, pairs) ==
  IF pairs = <<>> THEN obj
  ELSE FromEntries(Put(obj, ToLowerCase(Head(pairs)[1]), Head(pairs)[2]), Tail(pairs))

ParsedHeaders(raw) == FromEntries(EmptyMap, raw.headers)

\* parsed.headers.host || ''
ParsedHost(headers) ==
  IF KeyHost \in DOMAIN headers /\ headers[KeyHost] # "" THEN headers[KeyHost]
  ELSE ""

\* kOnBody assigns parsed.body at every call: the chunk of the last call
\* stays, and a message without body bytes leaves the property unset
ParsedBody(raw) ==
  IF raw.chunks = <<>> THEN Absent ELSE raw.chunks[Len(raw.chunks)]

\* messages as the underlying parser reports them: kind "ok" is a complete
\* message, "malformed" has no parseable start line; method is info.method,
\* headers is info.headers in pairs, chunks are the kOnBody calls
WireRequests(urls, headerLists, codes, chunkLists, kinds) ==
  [kind : kinds, method : codes, url : urls, headers : headerLists,
   chunks : chunkLists]

\* the header list of a message whose only header is Host ("" for none)
HostHeader(host) == IF host = "" THEN <<>> ELSE <<(<<NameHost, host>>)>>
\* the kOnBody calls of a message with a Content-Length body
BodyChunks(body) == IF body = Absent THEN <<>> ELSE <<body>>

RawRequests(urls, hostHeaders, methods, bodies, kinds) ==
  WireRequests(urls, {HostHeader(host) : host \in hostHeaders},
               {MethodCode(m) : m \in methods},
               {BodyChunks(body) : body \in bodies}, kinds)

\* parseHttpMessage resolves only from kOnMessageComplete
Completes(raw) == raw.kind = "ok"

\* the object parseHttpMessage resolves with, for request n
ParsedRequest(raw, n) ==
  [arrival |-> n, method |-> MethodName(raw.method), url |-> raw.url,
   host |-> ParsedHost(ParsedHeaders(raw)), headers |-> ParsedHeaders(raw),
   body |-> ParsedBody(raw)]

\* the same for a response: info.statusCode and info.statusMessage
ParsedResponse(raw, n) ==
  [arrival |-> n, statusCode |-> raw.statusCode,
   statusMessage |-> raw.statusMessage, headers |-> ParsedHeaders(raw),
   body |-> ParsedBody(raw)]

\* what parseRequestResponse returns for payload p accepted as number n
Parsed(p, n) ==
  [request |-> ParsedRequest(p.request, n),
   response |-> IF p.response = Undefined THEN NullObject
                ELSE ParsedResponse(p.response, n)]

(* ------------------------- ingestion endpoint ------------------------- *)
\* answer: the HTTP status sent, 0 while none was; threw: dataCallback threw;
\* dropped: dataCallback found the Store uninitialized; written: the write of
\* its addRequest succeeded
IdleHandler ==
  [pc |-> "idle", payload |-> Undefined, answer |-> 0, threw |-> FALSE,
   dropped |-> FALSE, written |-> FALSE]

Finished(h, answer, threw, dropped, written) ==
  [handlers EXCEPT ![h] = [pc |-> "done", payload |-> @.payload,
                           answer |-> answer, threw |-> threw,
                           dropped |-> dropped, written |-> written]]

\* the continuations queued are all of handlers at their first await: the
\* requests of one read of a connection start before any of them continues
InTick ==
  \A k \in 1..Len(microtasks) :
    handlers[microtasks[k]].pc \in {"awaitRequest", "rejected"}

\* POST /burp-data up to the first await: JSON.stringify(req.body), JSON.parse,
\* request.raw, and the synchronous parse of the request
Accept(payloads) ==
  /\ activated
  /\ arrived < MaxPayloads
  /\ InTick
  /\ \E p \in payloads :
       LET h == arrived + 1 IN
       /\ arrived' = h
       /\ IF p.request = Undefined
          THEN /\ handlers' = [handlers EXCEPT ![h] = [@ EXCEPT !.pc = "rejected", !.payload = p]]
               /\ microtasks' = Append(microtasks, h)
          ELSE /\ handlers' = [handlers EXCEPT ![h] = [@ EXCEPT !.pc = "awaitRequest", !.payload = p]]
               /\ microtasks' = IF Completes(p.request) THEN Append(microtasks, h)
                                ELSE microtasks
  /\ UNCHANGED <<storeVars, appVars>>

\* parseRequestResponse after `await parseHttpMessage(request.raw)`
ResumeRequest ==
  /\ microtasks # <<>>
  /\ LET h == Head(microtasks)
         p == handlers[h].payload
     IN  /\ handlers[h].pc = "awaitRequest"
         /\ IF p.response # Undefined
            THEN /\ handlers' = [handlers EXCEPT ![h].pc = "awaitResponse"]
                 /\ microtasks' = IF Completes(p.response)
                                  THEN Append(Tail(microtasks), h)
                                  ELSE Tail(microtasks)
            ELSE /\ handlers' = [handlers EXCEPT ![h].pc = "awaitParsed"]
                 /\ microtasks' = Append(Tail(microtasks), h)
  /\ UNCHANGED <<storeVars, appVars, arrived>>

\* parseRequestResponse after `await parseHttpMessage(response, true)`
ResumeResponse ==
  /\ microtasks # <<>>
  /\ LET h == Head(microtasks)
     IN  /\ handlers[h].pc = "awaitResponse"
         /\ handlers' = [handlers EXCEPT ![h].pc = "awaitParsed"]
         /\ microtasks' = Append(Tail(microtasks), h)
  /\ UNCHANGED <<storeVars, appVars, arrived>>

dataCallbackUnguarded(data, ok) == addRequest(data, ok)
\* the callback activate() hands to createServer
dataCallback(data, ok) ==
  IF initialized THEN addRequest(data, ok) ELSE UNCHANGED storeVars

DataCallbackThrows(data) == initialized /\ AddRequestThrows(data)

\* the handler after `await parseRequestResponse(rawRequest)`: dataCallback,
\* then 200, or 400 from the catch block
RespondWithLatestPayload(oks) ==
  /\ microtasks # <<>>
  /\ LET h == Head(microtasks)
         data == Parsed(handlers[arrived].payload, h)
     IN  /\ handlers[h].pc = "awaitParsed"
         /\ \E ok \in oks :
              /\ dataCallback(data, ok)
              /\ handlers' = Finished(h, IF DataCallbackThrows(data) THEN 400 ELSE 200,
                                      DataCallbackThrows(data), ~initialized,
                                      initialized /\ ~UrlThrows(HostOf(data)) /\ ok)
         /\ microtasks' = Tail(microtasks)
  /\ UNCHANGED <<appVars, arrived>>
Respond(oks) ==
  /\ microtasks # <<>>
  /\ LET h == Head(microtasks)
         data == Parsed(handlers[h].payload, h)
     IN  /\ handlers[h].pc = "awaitParsed"
         /\ \E ok \in oks :
              /\ dataCallback(data, ok)
              /\ handlers' = Finished(h, IF DataCallbackThrows(data) THEN 400 ELSE 200,
                                      DataCallbackThrows(data), ~initialized,
                                      initialized /\ ~UrlThrows(HostOf(data)) /\ ok)
         /\ microtasks' = Tail(microtasks)
  /\ UNCHANGED <<appVars, arrived>>

\* the catch block when parseRequestResponse rejected
RespondError ==
  /\ microtasks # <<>>
  /\ LET h == Head(microtasks)
     IN  /\ handlers[h].pc = "rejected"
         /\ handlers' = Finished(h, 400, FALSE, FALSE, FALSE)
         /\ microtasks' = Tail(microtasks)
  /\ UNCHANGED <<storeVars, appVars, arrived>>

(* ------------------------- the listening port ------------------------ *)
\* activate() calls createServer(3700, callback)
StartServer ==
  /\ activated
  /\ listening = "no"
  /\ listening' = "probing"
  /\ probing' = PreferredPort
  /\ UNCHANGED <<storeVars, serverVars, initialized, changeListeners, now, activated,
                 validation, locationVars, panel, occupied>>

\* findAvailablePort(startPort): a throw-away server listens on the port; on
\* EADDRINUSE the next port is tried, otherwise the server is closed and the
\* port is the result
findAvailablePort ==
  /\ listening = "probing"
  /\ IF probing \in occupied
     THEN probing' = probing + 1 /\ listening' = "probing"
     ELSE probing' = probing /\ listening' = "found"
  /\ UNCHANGED <<storeVars, serverVars, initialized, changeListeners, now, activated,
                 validation, locationVars, panel, occupied>>

\* createServer after `await findAvailablePort(startPort)`: app.listen(port)
\* with no 'error' listener, and { server, port } returned in any case
Listen ==
  /\ listening = "found"
  /\ listening' = IF probing \in occupied THEN "failed" ELSE "yes"
  /\ UNCHANGED <<storeVars, serverVars, initialized, changeListeners, now, activated,
                 validation, locationVars, panel, occupied, probing>>

\* another process starts to listen on a free port; the last port of the
\* model stays free
OtherTakes ==
  /\ \E p \in Ports \ {PreferredPort + PortSpan} :
       /\ p \notin occupied
       /\ ~(listening = "yes" /\ p = probing)
       /\ occupied' = occupied \cup {p}
  /\ UNCHANGED <<storeVars, serverVars, initialized, changeListeners, now, activated,
                 validation, locationVars, panel, probing, listening>>

(* ----------------------- commands of the editor ----------------------- *)
Coordinates == HostKeys \X Paths \X Methods \X (-1..MaxPayloads)

\* array.findIndex(req => req.timestamp.getTime() === t): the first match,
\* zero-based, or -1
FindIndex(bucket, t) ==
  IF \E k \in 1..Len(bucket) : GetTime(bucket[k].timestamp) = t
  THEN (CHOOSE k \in 1..Len(bucket) :
          /\ GetTime(bucket[k].timestamp) = t
          /\ \A j \in 1..(k - 1) : GetTime(bucket[j].timestamp) # t) - 1
  ELSE -1

\* the exchanges a tree item or a panel can stand for: <<host, endpoint,
\* method, position>> of every stored exchange
Stored ==
  {c \in Coordinates : Resolves(c[1], c[2], c[3], c[4])}

\* code references of the exchange at c, [] when it has none
RefsAt(c) ==
  LET refs == Bucket(c[1], c[2], c[3])[c[4] + 1].codeReferences
  IN  IF refs = Undefined THEN <<>> ELSE refs.items

\* coordinates a caller may hold: those of the stored exchanges, and stale
\* ones (an index before or past a bucket, a bucket that does not exist)
Targets ==
  Stored
  \cup {c \in Coordinates : HasMethod(c[1], c[2], c[3])
                            /\ c[4] \in {-1, Len(Bucket(c[1], c[2], c[3]))}}
  \cup {<<"unknown-host", Pathname(UrlA), "POST", 0>>}

\* request panel: the 'updateRequestNotes' message
UpdateRequestNotes(oks) ==
  /\ Idle
  /\ \E c \in Targets, notes \in NoteTexts, ok \in oks :
       updateRequestNotes(c[1], c[2], c[3], c[4], notes, ok)
  /\ UNCHANGED <<appVars, serverVars>>

\* request panel: the 'updateEndpointNotes' message
UpdateEndpointNotes(oks) ==
  /\ Idle
  /\ \E h \in HostKeys, e \in Paths, notes \in NoteTexts, ok \in oks :
       updateEndpointNotes(h, e, notes, ok)
  /\ UNCHANGED <<appVars, serverVars>>

\* openSecure.clearData, confirmed
ClearData(oks) ==
  /\ Idle
  /\ \E ok \in oks : clearData(ok)
  /\ UNCHANGED <<appVars, serverVars>>

\* openSecure.addCodeReference on a tree item: the item's exchange is looked
\* up by its timestamp and the reference is added at the index found
AddCodeReference(oks) ==
  /\ Idle
  /\ \E c \in Stored, text \in Texts, ok \in oks :
       LET bucket == Bucket(c[1], c[2], c[3])
           requestIndex == FindIndex(bucket, GetTime(bucket[c[4] + 1].timestamp))
       IN  /\ Len(RefsAt(<<c[1], c[2], c[3], requestIndex>>)) < MaxRefs
           /\ addCodeReference(c[1], c[2], c[3], requestIndex, NewCodeRef(text), ok)
  /\ UNCHANGED <<appVars, serverVars>>

\* request panel: the 'removeCodeReference' message, passed on when the
\* panel's exchange has a reference at refIndex
RemoveCodeReference(oks) ==
  /\ Idle
  /\ \E c \in Stored, refIndex \in (-1..MaxRefs), ok \in oks :
       /\ At(RefsAt(c), refIndex) # Undefined
       /\ removeCodeReference(c[1], c[2], c[3], c[4], refIndex, ok)
  /\ UNCHANGED <<appVars, serverVars>>

\* Storage.renameRequest, from the rename command
RenameRequest(oks) ==
  /\ Idle
  /\ \E c \in Targets, newName \in Names, ok \in oks :
       renameRequest(c[1], c[2], c[3], c[4], newName, ok)
  /\ UNCHANGED <<appVars, serverVars>>

\* the open panel after the exchange at c left the index: when it is the
\* panel's data object, the panel keeps the object as it then was
Detached(c) ==
  IF panel # Undefined /\ Resolves(c[1], c[2], c[3], c[4])
     /\ Bucket(c[1], c[2], c[3])[c[4] + 1].request.arrival = panel.data
  THEN [panel EXCEPT !.detached = Bucket(c[1], c[2], c[3])[c[4] + 1]]
  ELSE panel

\* Storage.deleteRequest, from the delete command
DeleteRequest(oks) ==
  /\ Idle
  /\ \E c \in Targets, ok \in oks :
       /\ deleteRequest(c[1], c[2], c[3], c[4], ok)
       /\ panel' = Detached(c)
  /\ UNCHANGED <<initialized, changeListeners, now, activated, validation, locationVars,
                 portVars, serverVars>>

\* arguments a caller of the Storage module can pass: any host, endpoint and
\* index, and as method any key of an endpoint object
ApiMethods == Methods \cup {"notes"}
ApiCoordinates == HostKeys \X Paths \X ApiMethods \X (-1..MaxPayloads)

\* those worth calling with: the stored exchanges, stale coordinates, and the
\* 'notes' key of the endpoints that exist
ApiTargets ==
  Targets
  \cup {c \in ApiCoordinates : HasEndpoint(c[1], c[2]) /\ c[3] = "notes" /\ c[4] \in {0, 1}}

\* storage.updateRequestNotes(...) called with any arguments
CallUpdateRequestNotes(oks) ==
  /\ Idle
  /\ \E c \in ApiTargets, notes \in NoteTexts, ok \in oks :
       updateRequestNotes(c[1], c[2], c[3], c[4], notes, ok)
  /\ UNCHANGED <<appVars, serverVars>>

\* storage.addCodeReference(...) called with any arguments
CallAddCodeReference(oks) ==
  /\ Idle
  /\ \E c \in ApiTargets, text \in Texts, ok \in oks :
       /\ Resolves(c[1], c[2], c[3], c[4]) => Len(RefsAt(c)) < MaxRefs + 1
       /\ addCodeReference(c[1], c[2], c[3], c[4], NewCodeRef(text), ok)
  /\ UNCHANGED <<appVars, serverVars>>

\* storage.removeCodeReference(...) called with any arguments
CallRemoveCodeReference(oks) ==
  /\ Idle
  /\ \E c \in ApiTargets, refIndex \in (-1..(MaxRefs + 1)), ok \in oks :
       removeCodeReference(c[1], c[2], c[3], c[4], refIndex, ok)
  /\ UNCHANGED <<appVars, serverVars>>

\* what a command finds at the referenced place: the file is gone, the line
\* range is gone, the document cannot be opened, or the text of the range
FileStates ==
  {[kind |-> k, text |-> <<>>] : k \in {"missing", "short", "error"}}
  \cup {[kind |-> "text", text |-> t] : t \in FileTexts}

\* openSecure.navigateToCodeReference(codeRef) on a stored reference: when
\* the line range is gone the reference object itself is marked invalid
NavigateToCodeReference ==
  /\ Idle
  /\ \E c \in Stored, file \in FileStates :
       /\ RefsAt(c) # <<>>
       /\ \E r \in 1..Len(RefsAt(c)) :
            hosts' = IF file.kind = "short"
                     THEN [hosts EXCEPT ![c[1]].endpoints[c[2]].methods[c[3]][c[4] + 1]
                                          .codeReferences.items[r].isValid = FALSE]
                     ELSE hosts
  /\ UNCHANGED <<disk, status, lastRun, lastCount, outcome, appVars, serverVars>>

\* hosts[host].endpoints[endpoint][method][requestIndex].codeReferences[refIndex]
RefResolves(v) ==
  /\ Resolves(v.host, v.endpoint, v.method, v.requestIndex)
  /\ At(RefsAt(<<v.host, v.endpoint, v.method, v.requestIndex>>), v.refIndex) # Undefined

\* markReferenceAsInvalid / markReferenceAsValid: the flags, validatedAt,
\* storage.saveData()
markReference(v, valid, reason, ok) ==
  IF RefResolves(v)
  THEN /\ hosts' = [hosts EXCEPT
                      ![v.host].endpoints[v.endpoint].methods[v.method][v.requestIndex + 1]
                         .codeReferences.items[v.refIndex + 1] =
                        [@ EXCEPT !.isValid = valid, !.invalidReason = reason,
                                  !.validatedAt = ToISOString(NewDate)]]
       /\ saveData(ok)
  ELSE UNCHANGED <<hosts, disk, status>>

\* request panel: 'validateCodeReference' with the panel's coordinates and
\* reference object; the command then waits for the file system
ValidateStart ==
  /\ Idle
  /\ validation = Undefined
  /\ \E c \in Stored :
       /\ RefsAt(c) # <<>>
       /\ \E r \in 1..Len(RefsAt(c)) :
            validation' = [host |-> c[1], endpoint |-> c[2], method |-> c[3],
                           requestIndex |-> c[4], refIndex |-> r - 1,
                           checksum |-> RefsAt(c)[r].checksum]
  /\ UNCHANGED <<storeVars, initialized, changeListeners, now, activated, serverVars,
                 locationVars, panel, portVars>>

\* openSecure.validateCodeReference after its awaits: the checksum of the
\* whole lines is compared with the checksum the reference carries
validateCodeReference(v, file, ok) ==
  CASE file.kind = "missing" ->
         markReference(v, FALSE, "File no longer exists", ok)
    [] file.kind = "short" ->
         markReference(v, FALSE, "Referenced lines no longer exist", ok)
    [] file.kind = "error" -> UNCHANGED <<hosts, disk, status>>
    [] OTHER ->
         IF calculateChecksum(file.text) # v.checksum
         THEN markReference(v, FALSE, "Code has been modified", ok)
         ELSE markReference(v, TRUE, Null, ok)

ValidateFinish(oks) ==
  /\ Idle
  /\ validation # Undefined
  /\ validation' = Undefined
  /\ \E file \in FileStates, ok \in oks : validateCodeReference(validation, file, ok)
  /\ UNCHANGED <<lastRun, lastCount, outcome, initialized, changeListeners, now, activated,
                 serverVars, locationVars, panel, portVars>>

(* -------------------------- the request panel ------------------------- *)
\* the panel's data: the exchange object RequestPanel.create was called
\* with, named by its arrival number; the object itself while it is in the
\* index, the object as it left the index afterwards
PanelData ==
  IF \E x \in AllExchanges(hosts) : x.request.arrival = panel.data
  THEN CHOOSE x \in AllExchanges(hosts) : x.request.arrival = panel.data
  ELSE panel.detached

\* RequestPanel.create(data) for the exchange of a tree item: the index is
\* the first position of the bucket holding data's timestamp; the panel's
\* title is built from data.request.host, which throws when the capture had
\* no Host header
CreatePanel ==
  /\ Idle
  /\ panel = Undefined
  /\ \E c \in Stored :
       LET bucket == Bucket(c[1], c[2], c[3])
           data == bucket[c[4] + 1]
           requestIndex == FindIndex(bucket, GetTime(data.timestamp))
       IN  /\ requestIndex # -1
           /\ data.request.host # ""
           /\ panel' = [host |-> c[1], endpoint |-> c[2], method |-> c[3],
                        requestIndex |-> requestIndex,
                        data |-> data.request.arrival, detached |-> Undefined]
  /\ UNCHANGED <<storeVars, initialized, changeListeners, now, activated, validation,
                 locationVars, portVars, serverVars>>

\* panel.onDidDispose
DisposePanel ==
  /\ Idle
  /\ panel # Undefined
  /\ panel' = Undefined
  /\ UNCHANGED <<storeVars, initialized, changeListeners, now, activated, validation,
                 locationVars, portVars, serverVars>>

\* the panel's 'updateRequestNotes' message
PanelUpdateRequestNotes(oks) ==
  /\ Idle
  /\ panel # Undefined
  /\ \E notes \in NoteTexts, ok \in oks :
       updateRequestNotes(panel.host, panel.endpoint, panel.method, panel.requestIndex,
                          notes, ok)
  /\ UNCHANGED <<appVars, serverVars>>

\* the panel's 'removeCodeReference' message: passed on when the data object
\* has a reference at refIndex
PanelRemoveCodeReference(oks) ==
  /\ Idle
  /\ panel # Undefined
  /\ \E refIndex \in 0..(MaxRefs - 1), ok \in oks :
       /\ PanelData.codeReferences # Undefined
       /\ At(PanelData.codeReferences.items, refIndex) # Undefined
       /\ removeCodeReference(panel.host, panel.endpoint, panel.method,
                              panel.requestIndex, refIndex, ok)
  /\ UNCHANGED <<appVars, serverVars>>

(* --------------------------- specifications --------------------------- *)
\* the state after construction, the data file apart
Constructed ==
  /\ hosts = EmptyMap
  /\ initialized = FALSE
  /\ changeListeners = <<>>
  /\ status = "idle"
  /\ now = 0
  /\ activated = FALSE
  /\ lastRun = <<>>
  /\ lastCount = 0
  /\ handlers = [h \in 1..MaxPayloads |-> IdleHandler]
  /\ microtasks = <<>>
  /\ arrived = 0
  /\ validation = Undefined
  /\ outcome = [threw |-> FALSE, returned |-> Undefined]
  /\ config = LocA
  /\ storagePath = Null
  /\ elsewhere = Undefined
  /\ panel = Undefined
  /\ occupied = {}
  /\ probing = PreferredPort
  /\ listening = "no"

\* no data file yet, or the one createStorage wrote
Init ==
  /\ disk \in {Undefined, Serialize(EmptyMap)}
  /\ Constructed

\* data files the extension can find when it starts
StartupFiles == {Undefined, Serialize(EmptyMap), Truncated, Unreadable, ForeignDocument}

InitStartup ==
  /\ disk \in StartupFiles
  /\ Constructed

OkResponse ==
  [kind |-> "ok", statusCode |-> 200, statusMessage |-> "OK", headers |-> <<>>,
   chunks |-> <<>>]
NoRequest == [request |-> Undefined, response |-> Undefined]

\* payloads of complete messages with a usable Host header and no response,
\* and one with no request member
StorePayloads ==
  [request : RawRequests({UrlAx, UrlAy}, {GoodHost}, {"GET"}, {Absent}, {"ok"})
             \cup RawRequests({UrlB}, {GoodHost}, Methods, {Absent}, {"ok"}),
   response : {Undefined}]
  \cup {NoRequest}

\* the Store behind the ingestion endpoint: captures, notes, rename, delete
\* and clear, every write succeeding
Next ==
  \/ Activate
  \/ CreateStorage({TRUE})
  \/ Accept(StorePayloads)
  \/ ResumeRequest
  \/ Respond({TRUE})
  \/ RespondError
  \/ UpdateEndpointNotes({TRUE})
  \/ UpdateRequestNotes({TRUE})
  \/ RenameRequest({TRUE})
  \/ ClearData({TRUE})
  \/ DeleteRequest({TRUE})

Spec == Init /\ [][Next]_vars

\* captures of one bucket, and the clock
ClockPayloads ==
  [request : RawRequests({UrlA}, {GoodHost}, {"GET"}, {Absent, OpBody}, {"ok"}),
   response : {Undefined}]

\* the Store under a millisecond clock: captures of one bucket and code
\* references added from the tree
NextClock ==
  \/ Activate
  \/ CreateStorage({TRUE})
  \/ Tick
  \/ Accept(ClockPayloads)
  \/ ResumeRequest
  \/ Respond({TRUE})
  \/ AddCodeReference({TRUE})

SpecClock == Init /\ [][NextClock]_vars

BadResponse ==
  [kind |-> "malformed", statusCode |-> 0, statusMessage |-> "", headers |-> <<>>,
   chunks |-> <<>>]
ListenerKinds == {"ok", "throws"}

\* payloads of one bucket: complete or malformed request, usable or unusable
\* Host header, with or without a response, and one with no request member
ServerPayloads ==
  [request : RawRequests({UrlA}, HostHeaders \ {""}, {"GET"}, {Absent}, {"ok", "malformed"}),
   response : {Undefined, OkResponse, BadResponse}]
  \cup {NoRequest}

\* the ingestion endpoint: every payload, writes that may fail, listeners
\* that may throw
NextServer ==
  \/ Activate
  \/ CreateStorage(BOOLEAN)
  \/ \E kind \in ListenerKinds : AddChangeListener(kind)
  \/ Accept(ServerPayloads)
  \/ ResumeRequest
  \/ ResumeResponse
  \/ Respond(BOOLEAN)
  \/ RespondError

SpecServer == Init /\ [][NextServer]_vars

\* the same with the event loop running every continuation that is queued
SpecServerFair ==
  /\ SpecServer
  /\ WF_vars(ResumeRequest)
  /\ WF_vars(ResumeResponse)
  /\ WF_vars(Respond(BOOLEAN))
  /\ WF_vars(RespondError)

RefPayloads ==
  [request : RawRequests({UrlA}, {GoodHost}, Methods, {Absent}, {"ok"}),
   response : {Undefined}]

\* code references: added, removed, visited and validated, every write
\* succeeding
NextRefs ==
  \/ Activate
  \/ CreateStorage({TRUE})
  \/ Tick
  \/ Accept(RefPayloads)
  \/ ResumeRequest
  \/ Respond({TRUE})
  \/ AddCodeReference({TRUE})
  \/ RemoveCodeReference({TRUE})
  \/ NavigateToCodeReference
  \/ ValidateStart
  \/ ValidateFinish({TRUE})

SpecRefs == Init /\ [][NextRefs]_vars

\* captures with a response and an operation name
PersistPayloads ==
  [request : RawRequests({UrlA}, {GoodHost}, {"POST"}, {OpBody}, {"ok"}),
   response : {OkResponse}]

\* the Store and its data file: captures, notes, code references and reloads
\* of the window, every write succeeding
NextPersist ==
  \/ Activate
  \/ CreateStorage({TRUE})
  \/ Restart
  \/ Tick
  \/ Accept(PersistPayloads)
  \/ ResumeRequest
  \/ ResumeResponse
  \/ Respond({TRUE})
  \/ UpdateEndpointNotes({TRUE})
  \/ UpdateRequestNotes({TRUE})
  \/ AddCodeReference({TRUE})

SpecPersist == Init /\ [][NextPersist]_vars

\* captures of one bucket
ApiPayloads ==
  [request : RawRequests({UrlA}, {GoodHost}, {"GET"}, {Absent}, {"ok"}),
   response : {Undefined}]

\* the Storage module called with any arguments, every write succeeding and
\* no listener throwing
NextApi ==
  \/ Activate
  \/ CreateStorage({TRUE})
  \/ Accept(ApiPayloads)
  \/ ResumeRequest
  \/ Respond({TRUE})
  \/ UpdateEndpointNotes({TRUE})
  \/ CallUpdateRequestNotes({TRUE})
  \/ CallAddCodeReference({TRUE})
  \/ CallRemoveCodeReference({TRUE})

SpecApi == Init /\ [][NextApi]_vars

\* clearing the Store: writes that may fail, listeners that may throw
NextClear ==
  \/ Activate
  \/ CreateStorage(BOOLEAN)
  \/ \E kind \in ListenerKinds : AddChangeListener(kind)
  \/ Accept(ApiPayloads)
  \/ ResumeRequest
  \/ Respond(BOOLEAN)
  \/ UpdateEndpointNotes(BOOLEAN)
  \/ ClearData(BOOLEAN)

SpecClear == Init /\ [][NextClear]_vars

\* mutations whose writes may fail, no listener throwing
NextWrites ==
  \/ Activate
  \/ CreateStorage(BOOLEAN)
  \/ Restart
  \/ Accept(ApiPayloads)
  \/ ResumeRequest
  \/ Respond(BOOLEAN)
  \/ UpdateRequestNotes(BOOLEAN)
  \/ DeleteRequest(BOOLEAN)

SpecWrites == Init /\ [][NextWrites]_vars

\* messages with and without a Host header, with and without a body, the
\* body in one kOnBody call or in two, alone or with a response
HeadersPlain == <<(<<NameHost, GoodHost>>), (<<NameXFoo, "bar">>)>>
HeadersNoHost == <<(<<NameXFoo, "bar">>)>>
ChunkLists == {<<>>, <<"text">>, <<"te", "xt">>}
TextResponse ==
  [kind |-> "ok", statusCode |-> 404, statusMessage |-> "Not Found",
   headers |-> <<(<<NameXFoo, "bar">>)>>, chunks |-> <<"text">>]

ParserPayloads ==
  [request : WireRequests({UrlAx}, {HeadersPlain, HeadersNoHost},
                          {MethodCode("GET")}, ChunkLists, {"ok"}),
   response : {Undefined, OkResponse, TextResponse}]

\* the parser fed through the ingestion endpoint, every write succeeding
NextParser ==
  \/ Activate
  \/ CreateStorage({TRUE})
  \/ Accept(ParserPayloads)
  \/ ResumeRequest
  \/ ResumeResponse
  \/ Respond({TRUE})

SpecParser == Init /\ [][NextParser]_vars

\* method codes of the table, the codes next to it, and header lists that
\* repeat a name in the same or in another case; the Store is the one that
\* activation loads, if any
MethodCodes == 0..(Len(HTTP_METHODS) + 1)
HeadersRepeated ==
  {<<(<<NameHost, GoodHost>>), (<<NameXFoo, "1">>), (<<NameXFooU, "2">>)>>,
   <<(<<NameXFooL, "1">>), (<<NameHost, GoodHost>>), (<<NameXFoo, "2,3">>)>>,
   <<(<<NameHost, "b.com">>), (<<KeyHost, GoodHost>>)>>}

MethodPayloads ==
  [request : WireRequests({UrlA}, {HeadersPlain}, MethodCodes, {<<>>}, {"ok"})
             \cup WireRequests({UrlA}, HeadersRepeated, {0}, {<<>>}, {"ok"}),
   response : {Undefined}]

NextMethods ==
  \/ Activate
  \/ Accept(MethodPayloads)
  \/ ResumeRequest
  \/ Respond({TRUE})

SpecMethods == Init /\ [][NextMethods]_vars

\* the storage location changed while captures come in
NextConfig ==
  \/ Activate
  \/ CreateStorage({TRUE})
  \/ ConfigChange
  \/ Accept(ApiPayloads)
  \/ ResumeRequest
  \/ Respond({TRUE})
  \/ UpdateEndpointNotes({TRUE})

SpecConfig == Init /\ [][NextConfig]_vars

\* captures of one bucket that differ in their request and in their response
ConcurrentPayloads ==
  {[request |-> CHOOSE r \in RawRequests({UrlAx}, {GoodHost}, {"GET"}, {Absent}, {"ok"}) : TRUE,
    response |-> Undefined],
   [request |-> CHOOSE r \in RawRequests({UrlAy}, {GoodHost}, {"GET"}, {Absent}, {"ok"}) : TRUE,
    response |-> OkResponse],
   [request |-> CHOOSE r \in RawRequests({UrlA}, {GoodHost}, {"GET"}, {Absent}, {"ok"}) : TRUE,
    response |-> TextResponse]}

\* payloads in flight together, every write succeeding
NextConcurrent ==
  \/ Activate
  \/ CreateStorage({TRUE})
  \/ Accept(ConcurrentPayloads)
  \/ ResumeRequest
  \/ ResumeResponse
  \/ Respond({TRUE})

SpecConcurrent == Init /\ [][NextConcurrent]_vars

\* the server started while other processes take ports
NextPort ==
  \/ Activate
  \/ StartServer
  \/ findAvailablePort
  \/ Listen
  \/ OtherTakes

SpecPort == Init /\ [][NextPort]_vars

\* captures of one bucket that are stored, one that addRequest rejects, one
\* that does not parse and one without request member
IngestPayloads ==
  [request : RawRequests({UrlA}, {GoodHost, BadHost}, {"GET"}, {Absent}, {"ok"})
             \cup RawRequests({UrlA}, {GoodHost}, {"GET"}, {Absent}, {"malformed"}),
   response : {Undefined}]
  \cup {NoRequest}

\* captures that come in between notes and code references being added
NextIngest ==
  \/ Activate
  \/ CreateStorage({TRUE})
  \/ Accept(IngestPayloads)
  \/ ResumeRequest
  \/ Respond({TRUE})
  \/ RespondError
  \/ UpdateEndpointNotes({TRUE})
  \/ UpdateRequestNotes({TRUE})
  \/ AddCodeReference({TRUE})

SpecIngest == Init /\ [][NextIngest]_vars

\* captures of one bucket
PanelPayloads ==
  [request : RawRequests({UrlA}, {GoodHost}, {"GET"}, {Absent}, {"ok"}),
   response : {Undefined}]

\* one request panel, while captures come in and exchanges are deleted
NextPanel ==
  \/ Activate
  \/ Tick
  \/ Accept(PanelPayloads)
  \/ ResumeRequest
  \/ Respond({TRUE})
  \/ AddCodeReference({TRUE})
  \/ DeleteRequest({TRUE})
  \/ CreatePanel
  \/ DisposePanel
  \/ PanelUpdateRequestNotes({TRUE})
  \/ PanelRemoveCodeReference({TRUE})

SpecPanel == Init /\ [][NextPanel]_vars

\* startup over any data file, reloads of the window, and the mutations
\* that follow, every write succeeding
NextStartup ==
  \/ Activate
  \/ Restart
  \/ CreateStorage({TRUE})
  \/ Accept(IngestPayloads)
  \/ ResumeRequest
  \/ Respond({TRUE})
  \/ RespondError
  \/ UpdateEndpointNotes({TRUE})

SpecStartup == InitStartup /\ [][NextStartup]_vars

(* ------------------------------ claims -------------------------------- *)
\* C1: the index holds no empty container: every method bucket present has
\* at least one exchange, every endpoint present has at least one method
\* bucket, and every host present has at least one endpoint.
C1_NoEmptyContainer ==
  \A h \in DOMAIN hosts :
    /\ DOMAIN hosts[h].endpoints # {}
    /\ \A e \in DOMAIN hosts[h].endpoints :
         /\ DOMAIN hosts[h].endpoints[e].methods # {}
         /\ \A m \in DOMAIN hosts[h].endpoints[e].methods :
              Len(hosts[h].endpoints[e].methods[m]) >= 1

\* what the claim says the index is after the exchange at c was deleted
C2_DeletedAt(c) ==
  LET h == c[1]
      e == c[2]
      m == c[3]
      bucket == Bucket(h, e, m)
      lastOfBucket == Len(bucket) = 1
      lastOfEndpoint == lastOfBucket /\ DOMAIN hosts[h].endpoints[e].methods = {m}
      lastOfHost == lastOfEndpoint /\ DOMAIN hosts[h].endpoints = {e}
  IN  IF lastOfHost THEN h \notin DOMAIN hosts'
      ELSE /\ h \in DOMAIN hosts'
           /\ IF lastOfEndpoint THEN e \notin DOMAIN hosts'[h].endpoints
              ELSE /\ e \in DOMAIN hosts'[h].endpoints
                   /\ IF lastOfBucket
                      THEN m \notin DOMAIN hosts'[h].endpoints[e].methods
                      ELSE /\ m \in DOMAIN hosts'[h].endpoints[e].methods
                           /\ hosts'[h].endpoints[e].methods[m] =
                                [k \in 1..(Len(bucket) - 1) |->
                                   IF k <= c[4] THEN bucket[k] ELSE bucket[k + 1]]

\* C2: a step that takes one exchange out of the index (deleteRequest with
\* resolving coordinates) removes exactly the exchange at that index, keeps
\* the order of the others, and removes the emptied bucket, then the endpoint
\* whose last bucket it was, then the host whose last endpoint it was.
C2_DeleteCascades ==
  [][TotalExchanges(hosts') = TotalExchanges(hosts) - 1
       => \E c \in Stored : C2_DeletedAt(c)]_vars

\* s is the beginning of t
IsPrefix(s, t) == Len(s) <= Len(t) /\ \A k \in 1..Len(s) : s[k] = t[k]

\* C4: every stored exchange lies in the bucket of its host, of its method
\* and of the path of its URL, the URL up to the query string; so exchanges
\* that differ only in the query string share a bucket, and no endpoint key
\* holds a query string.
C4_GroupedByPath ==
  \A b \in AllBuckets(hosts) :
    LET e == b[2] IN
    /\ \A k \in 1..Len(e) : e[k] \notin {"?", "#"}
    /\ \A i \in 1..Len(Bucket(b[1], b[2], b[3])) :
         LET x == Bucket(b[1], b[2], b[3])[i] IN
         /\ b[1] = x.request.host
         /\ b[3] = x.request.method
         /\ IsPrefix(e, x.request.url)
         /\ Len(e) < Len(x.request.url) => x.request.url[Len(e) + 1] \in {"?", "#"}

\* C4's case: one bucket holds two exchanges whose URLs differ
C4_Witness ==
  \E b \in AllBuckets(hosts) :
    \E i, j \in 1..Len(Bucket(b[1], b[2], b[3])) :
      Bucket(b[1], b[2], b[3])[i].request.url # Bucket(b[1], b[2], b[3])[j].request.url

\* C6: a capture that reaches the data callback while the Store is
\* uninitialized changes neither the index nor the data file, and it is not
\* kept for later: no exchange of the index comes from such a capture, also
\* after createStorage.
C6_UninitializedDrops ==
  /\ [][\A h \in 1..MaxPayloads :
          (~initialized /\ handlers[h].pc = "awaitParsed" /\ handlers'[h].pc = "done")
            => (hosts' = hosts /\ disk' = disk)]_vars
  /\ [](\A x \in AllExchanges(hosts) : ~handlers[x.request.arrival].dropped)

\* C6's case: a capture was dropped, the Store was initialized afterwards and
\* has stored a later capture
C6_Witness ==
  /\ initialized
  /\ \E h \in 1..MaxPayloads : handlers[h].dropped
  /\ TotalExchanges(hosts) >= 1

\* C3: in every bucket the timestamps are pairwise distinct, so the lookup
\* by timestamp (findIndex) of any entry returns the index of that entry,
\* also when the clock gave the same instant to consecutive addRequest calls.
C3_TimestampIdentifies ==
  \A b \in AllBuckets(hosts) :
    LET bucket == Bucket(b[1], b[2], b[3]) IN
    \A i \in 1..Len(bucket) : FindIndex(bucket, GetTime(bucket[i].timestamp)) = i - 1

\* C5: in every bucket the exchanges stand in the order in which their
\* payloads were accepted by the ingestion endpoint.
C5_ArrivalOrder ==
  \A b \in AllBuckets(hosts) :
    LET bucket == Bucket(b[1], b[2], b[3]) IN
    \A i, j \in 1..Len(bucket) :
      i < j => bucket[i].request.arrival < bucket[j].request.arrival

\* the raw request of handler h has no parseable start line
C7_NoStartLine(h) ==
  /\ handlers[h].payload # Undefined
  /\ handlers[h].payload.request # Undefined
  /\ handlers[h].payload.request.kind = "malformed"

\* the payload of handler h parses: request and, if given, response
PayloadParses(h) ==
  /\ handlers[h].payload # Undefined
  /\ handlers[h].payload.request # Undefined
  /\ Completes(handlers[h].payload.request)
  /\ handlers[h].payload.response # Undefined => Completes(handlers[h].payload.response)

\* C7: once the endpoint has nothing left to run, a payload whose raw request
\* has no parseable start line was answered 400, and a payload that parsed
\* (and whose data callback did not throw) was answered 200; a payload that
\* does not parse is never answered 200 and never stored.
C7_AnswerFollowsParsing ==
  \A h \in 1..arrived :
    /\ (microtasks = <<>> /\ C7_NoStartLine(h)) => handlers[h].answer = 400
    /\ (microtasks = <<>> /\ PayloadParses(h) /\ ~handlers[h].threw)
         => handlers[h].answer = 200
    /\ ~PayloadParses(h) =>
         /\ handlers[h].answer # 200
         /\ \A x \in AllExchanges(hosts) : x.request.arrival # h

\* C8: a payload that parsed is answered 200, whatever the data callback,
\* Store.addRequest, the write of the file or a change listener did.
C8_StatusOnlyFromParsing ==
  \A h \in 1..arrived :
    (PayloadParses(h) /\ handlers[h].pc = "done") => handlers[h].answer = 200

\* C9: the last notification invoked every registered listener once, in
\* registration order, a throwing listener included and the ones after it.
C9_EveryListenerRuns ==
  lastRun = [i \in 1..lastCount |-> i]

\* C10: when the Store is initialized, no operation is in progress and no
\* write has failed, the data file holds the serialization of the index.
C10_WriteThrough ==
  (initialized /\ Idle /\ validation = Undefined /\ status # "error")
    => disk = Serialize(hosts)

\* C11: saving the index and loading the document into a fresh Store gives
\* the same index: hosts, endpoints, endpoint notes, methods, the order of the
\* exchanges, and every exchange with its timestamp as an instant, its notes
\* and its code references; a reload of the window whose data file is the
\* saved index starts from that index.
C11_RoundTrip ==
  /\ [](Deserialize(Serialize(hosts)) = hosts)
  /\ [][(Restart /\ disk = Serialize(hosts)) => hosts' = hosts]_vars

\* C11's case: the Store was reloaded from a file that holds an exchange with
\* a response, a custom name, notes and a code reference, in an endpoint with
\* notes
C11_Witness ==
  /\ lastCount = 0
  /\ disk = Serialize(hosts)
  /\ \E x \in AllExchanges(hosts) :
       /\ x.codeReferences # Undefined
       /\ x.notes # ""
       /\ GetTime(x.timestamp) # 0
       /\ x.customName # Absent
       /\ x.response # NullObject
  /\ \E h \in DOMAIN hosts : \E e \in DOMAIN hosts[h].endpoints :
       hosts[h].endpoints[e].notes = "n"

\* the step is a call of the Storage module and nothing else
StoreStep == UNCHANGED <<appVars, serverVars>>

\* C12: updateRequestNotes and updateEndpointNotes with coordinates that do
\* not resolve raise no error and leave the index, the file and the listeners
\* untouched; with coordinates that resolve they replace the addressed notes
\* and nothing else in the index.
C12_NotesFrame ==
  [][/\ \A c \in ApiCoordinates, text \in NoteTexts :
          (StoreStep /\ updateRequestNotes(c[1], c[2], c[3], c[4], text, TRUE))
            => IF Resolves(c[1], c[2], c[3], c[4])
               THEN hosts' = [hosts EXCEPT
                                ![c[1]].endpoints[c[2]].methods[c[3]][c[4] + 1].notes = text]
               ELSE UNCHANGED indexVars /\ ~outcome'.threw
     /\ \A h \in HostKeys, e \in Paths, text \in NoteTexts :
          (StoreStep /\ updateEndpointNotes(h, e, text, TRUE))
            => IF HasEndpoint(h, e)
               THEN hosts' = [hosts EXCEPT ![h].endpoints[e].notes = text]
               ELSE UNCHANGED indexVars /\ ~outcome'.threw]_vars

\* C13: removeCodeReference on an exchange that has code references removes
\* the reference at refIndex and keeps the order of the others when refIndex
\* is one of 0..len-1, and leaves the references as they are when refIndex is
\* negative or not less than their number.
C13_RemoveByPosition ==
  [][\A c \in Stored, refIndex \in (-1..(MaxRefs + 1)) :
       (/\ StoreStep
        /\ Bucket(c[1], c[2], c[3])[c[4] + 1].codeReferences # Undefined
        /\ removeCodeReference(c[1], c[2], c[3], c[4], refIndex, TRUE))
         => LET items == RefsAt(c)
                after == hosts'[c[1]].endpoints[c[2]].methods[c[3]][c[4] + 1].codeReferences.items
            IN  IF 0 <= refIndex /\ refIndex < Len(items)
                THEN after = [k \in 1..(Len(items) - 1) |->
                                IF k <= refIndex THEN items[k] ELSE items[k + 1]]
                ELSE after = items]_vars

\* C14: addCodeReference with coordinates that resolve appends the reference
\* to the code references of that exchange (an empty list when it had none),
\* changes nothing else in the index and returns that exchange; with
\* coordinates that do not resolve it changes nothing and returns null.
C14_AddAppends ==
  [][\A c \in ApiCoordinates, text \in Texts :
       (StoreStep /\ addCodeReference(c[1], c[2], c[3], c[4], NewCodeRef(text), TRUE))
         => IF Resolves(c[1], c[2], c[3], c[4])
            THEN /\ hosts' = [hosts EXCEPT
                                ![c[1]].endpoints[c[2]].methods[c[3]][c[4] + 1].codeReferences =
                                  [items |-> Append(RefsAt(c), NewCodeRef(text))]]
                 /\ outcome' = [threw |-> FALSE, returned |-> [ref |-> c]]
            ELSE /\ UNCHANGED indexVars
                 /\ outcome' = [threw |-> FALSE, returned |-> NullObject]]_vars

\* C15: a call of clearData leaves the index empty whatever it held, and when
\* its write succeeds the data file holds the empty index; the write is done
\* before the listeners run, so also when a listener throws.
C15_ClearEmpties ==
  [][(StoreStep /\ \E ok \in BOOLEAN : clearData(ok))
       => /\ hosts' = EmptyMap
          /\ status' = "saved" => disk' = Serialize(EmptyMap)]_vars

\* C15's case: an exchange was stored, clearData then emptied the index and
\* wrote the empty document although a listener threw
C15_Witness ==
  /\ \E h \in 1..arrived :
       handlers[h].pc = "done" /\ handlers[h].answer = 200 /\ ~handlers[h].dropped
  /\ hosts = EmptyMap
  /\ disk = Serialize(EmptyMap)
  /\ status = "saved"
  /\ outcome.threw

\* C16: a mutation whose write fails keeps its change of the index, shows the
\* failure in the status indicator and raises nothing; every write is a write
\* of the whole index, so after a write that succeeded the data file holds
\* every mutation made so far.
C16_WriteFailureKept ==
  /\ [](status = "saved" => disk = Serialize(hosts))
  /\ [][(hosts' # hosts /\ lastCount' # 0 /\ disk' # Serialize(hosts'))
          => (status' = "error" /\ ~outcome'.threw)]_vars
  /\ [][\A c \in Stored, text \in NoteTexts :
          (StoreStep /\ updateRequestNotes(c[1], c[2], c[3], c[4], text, FALSE))
            => /\ hosts' = [hosts EXCEPT
                              ![c[1]].endpoints[c[2]].methods[c[3]][c[4] + 1].notes = text]
               /\ status' = "error"
               /\ ~outcome'.threw]_vars

\* C16's case: after a mutation whose write failed, a later mutation was
\* written and the file holds the index with both
C16_Witness ==
  /\ status = "saved"
  /\ disk = Serialize(hosts)
  /\ \E x \in AllExchanges(hosts) :
       /\ x.notes = "n"
       /\ handlers[x.request.arrival].pc = "done"
       /\ ~handlers[x.request.arrival].written

\* the wire message an exchange of the index was parsed from
RawOf(x) == handlers[x.request.arrival].payload

\* the characters after the blank line: the body bytes in the order sent
RECURSIVE C17_Characters(_)
C17_Characters(chunks) ==
  IF chunks = <<>> THEN "" ELSE Head(chunks) \o C17_Characters(Tail(chunks))

\* C17: a stored exchange carries the method name, the URL as given, the host
\* and the headers of its request, and a body equal to the characters after
\* the blank line, "" when there are none; its response, when given, carries
\* the integer status code, the status message, the headers and the body in
\* the same way.
C17_ParsedFields ==
  \A x \in AllExchanges(hosts) :
    /\ x.request.method = "GET"
    /\ x.request.url = RawOf(x).request.url
    /\ x.request.host \in {"", GoodHost}
    /\ \A k \in 1..Len(RawOf(x).request.headers) :
         ToLowerCase(RawOf(x).request.headers[k][1]) \in DOMAIN x.request.headers
    /\ x.request.body = C17_Characters(RawOf(x).request.chunks)
    /\ RawOf(x).response # Undefined =>
         /\ x.response.statusCode \in Nat
         /\ x.response.statusCode = RawOf(x).response.statusCode
         /\ x.response.statusMessage = RawOf(x).response.statusMessage
         /\ \A k \in 1..Len(RawOf(x).response.headers) :
              ToLowerCase(RawOf(x).response.headers[k][1]) \in DOMAIN x.response.headers
         /\ x.response.body = C17_Characters(RawOf(x).response.chunks)

\* the message has a header whose name is Host in any case
C18_HasHostHeader(raw) ==
  \E k \in 1..Len(raw.headers) : ToLowerCase(raw.headers[k][1]) = KeyHost

\* C18: the host of a stored request is the value of its Host header, and
\* 'unknown-host' when the message had none; an exchange whose message had no
\* Host header is in a bucket of host 'unknown-host'.
C18_HostOrSentinel ==
  \A b \in AllBuckets(hosts) :
    \A i \in 1..Len(Bucket(b[1], b[2], b[3])) :
      LET x == Bucket(b[1], b[2], b[3])[i]
          raw == RawOf(x).request
      IN  IF C18_HasHostHeader(raw)
          THEN \E k \in 1..Len(raw.headers) :
                 /\ ToLowerCase(raw.headers[k][1]) = KeyHost
                 /\ x.request.host = raw.headers[k][2]
          ELSE /\ x.request.host = "unknown-host"
               /\ b[1] = "unknown-host"

C19_UpperCase ==
  {"A", "B", "C", "D", "E", "F", "G", "H", "I", "J", "K", "L", "M", "N", "O",
   "P", "Q", "R", "S", "T", "U", "V", "W", "X", "Y", "Z"}

\* the last entry of a header list whose lowercased name is key
C19_LastOccurrence(pairs, key) ==
  CHOOSE k \in 1..Len(pairs) :
    /\ ToLowerCase(pairs[k][1]) = key
    /\ \A j \in (k + 1)..Len(pairs) : ToLowerCase(pairs[j][1]) # key

\* C19: every message with a method code is answered 200 and stored; codes
\* 0..32 give a name of the table (0 DELETE, 1 GET, 3 POST, 12 PROPFIND,
\* 20 REPORT, 32 UNLINK), never an UNKNOWN label, and distinct codes give
\* distinct names; any other code gives UNKNOWN(code). The keys of the
\* parsed headers are the names lowercased, without an uppercase letter, and
\* each key holds the value of its last occurrence.
C19_MethodsAndHeaders ==
  /\ \A h \in 1..arrived :
       handlers[h].pc = "done" => (handlers[h].answer = 200 /\ ~handlers[h].threw)
  /\ \A x \in AllExchanges(hosts) :
       LET code == RawOf(x).request.method
           pairs == RawOf(x).request.headers
           name == x.request.method
       IN  /\ code = 0 => name = "DELETE"
           /\ code = 1 => name = "GET"
           /\ code = 3 => name = "POST"
           /\ code = 12 => name = "PROPFIND"
           /\ code = 20 => name = "REPORT"
           /\ code = 32 => name = "UNLINK"
           /\ code \in 0..32 => \A other \in MethodCodes : name # UnknownLabel(other)
           /\ code \notin 0..32 => name = "UNKNOWN(" \o ToString(code) \o ")"
           /\ \A y \in AllExchanges(hosts) :
                x.request.method = y.request.method
                  => RawOf(y).request.method = code
           /\ DOMAIN x.request.headers = {ToLowerCase(pairs[k][1]) : k \in 1..Len(pairs)}
           /\ \A key \in DOMAIN x.request.headers :
                /\ \A k \in 1..Len(key) : key[k] \notin C19_UpperCase
                /\ x.request.headers[key] = pairs[C19_LastOccurrence(pairs, key)][2]

\* C19's case: a message with code 0 and a header name repeated in another
\* case is stored as DELETE with the later value, next to a message with the
\* first code beyond the table stored under its UNKNOWN label
C19_Witness ==
  /\ \E x \in AllExchanges(hosts) :
       /\ RawOf(x).request.method = 0
       /\ x.request.method = "DELETE"
       /\ RawOf(x).request.headers \in HeadersRepeated
       /\ NameXFooL \in DOMAIN x.request.headers
       /\ x.request.headers[NameXFooL] = "2"
  /\ \E y \in AllExchanges(hosts) :
       /\ RawOf(y).request.method = 33
       /\ y.request.method = "UNKNOWN(33)"

\* the stored reference a pending validation points at
C20_Target ==
  RefsAt(<<validation.host, validation.endpoint, validation.method,
           validation.requestIndex>>)[validation.refIndex + 1]

\* the same reference after the step
C20_TargetAfter ==
  hosts'[validation.host].endpoints[validation.endpoint].methods[validation.method]
        [validation.requestIndex + 1].codeReferences.items[validation.refIndex + 1]

\* C20: a validation that finishes on the stored reference it was started for
\* leaves it invalid with a reason when the file is missing, when the line
\* range is gone, or when the checksum of the lines differs from the one
\* stored; it leaves it valid with the reason cleared when the lines are the
\* ones the reference was made from, whatever its flags were before.
C20_ValidationMarks ==
  [][\A file \in FileStates :
       (/\ validation # Undefined
        /\ RefResolves(validation)
        /\ C20_Target.checksum = validation.checksum
        /\ Idle
        /\ validation' = Undefined
        /\ validateCodeReference(validation, file, TRUE)
        /\ UNCHANGED <<lastRun, lastCount, outcome, initialized, changeListeners, now,
                       activated, serverVars>>)
         => /\ (file.kind \in {"missing", "short"}
                 \/ (file.kind = "text"
                      /\ calculateChecksum(file.text) # C20_Target.checksum))
                 => /\ C20_TargetAfter.isValid = FALSE
                    /\ C20_TargetAfter.invalidReason \notin {Absent, Null, ""}
            /\ (file.kind = "text" /\ file.text = LinesOf(C20_Target.text))
                 => /\ C20_TargetAfter.isValid = TRUE
                    /\ C20_TargetAfter.invalidReason = Null]_vars

\* a configuration change to loc handled by the Store
C21_ConfigStep(loc) ==
  /\ Idle
  /\ config' = loc
  /\ handleConfigChange(loc)
  /\ UNCHANGED <<status, lastRun, lastCount, outcome, changeListeners, now, activated,
                 validation, panel, portVars, serverVars>>

\* C21: a configuration change to another location makes storagePath that
\* location and the index the document stored there, or the empty index when
\* there is none; a change that resolves to the same location leaves the
\* index, the initialized flag and the data file as they are.
C21_ReinitializeOnChange ==
  [][\A loc \in Locations :
       C21_ConfigStep(loc)
         => IF loc # storagePath
            THEN /\ storagePath' = loc
                 /\ hosts' = IF elsewhere # Undefined THEN Deserialize(elsewhere)
                             ELSE EmptyMap
            ELSE UNCHANGED <<hosts, initialized, storagePath, disk, elsewhere>>]_vars

\* C30: a createStorage that succeeds where there was no data file leaves the
\* index and the data file empty, and a Store that is not initialized holds
\* no exchange.
C30_CreateStorageEmpty ==
  /\ [](~initialized => hosts = EmptyMap)
  /\ [][(disk = Undefined /\ CreateStorage({TRUE}))
          => (hosts' = EmptyMap /\ disk' = Serialize(EmptyMap))]_vars

\* the handlers that passed their payload on to an initialized Store
C22_Stored == {h \in 1..arrived : handlers[h].pc = "done" /\ ~handlers[h].dropped}

\* C22: in whatever order the handlers of concurrent payloads continue, every
\* payload handed to the Store is exactly one exchange of the index, and each
\* exchange has the request of one payload and the response of that same
\* payload, or none when the payload had none.
C22_NoMixing ==
  /\ TotalExchanges(hosts) = Cardinality(C22_Stored)
  /\ \A h \in C22_Stored : \E x \in AllExchanges(hosts) : x.request.arrival = h
  /\ \A x \in AllExchanges(hosts) :
       LET p == RawOf(x)
       IN  /\ x.request.arrival \in C22_Stored
           /\ x.request.url = p.request.url
           /\ IF p.response = Undefined THEN x.response = NullObject
              ELSE /\ x.response # NullObject
                   /\ x.response.arrival = x.request.arrival
                   /\ x.response.statusCode = p.response.statusCode
                   /\ x.response.statusMessage = p.response.statusMessage

\* C22's case: a payload with a response was overtaken by a later payload
\* without one, and both are in one bucket, each with its own response
C22_Witness ==
  /\ HasMethod(GoodHost, Pathname(UrlA), "GET")
  /\ LET bucket == Bucket(GoodHost, Pathname(UrlA), "GET")
     IN  /\ Len(bucket) = 2
         /\ bucket[1].request.arrival = 2
         /\ bucket[1].response = NullObject
         /\ bucket[2].request.arrival = 1
         /\ bucket[2].response # NullObject
         /\ bucket[2].response.statusCode = 404

\* C23: the port findAvailablePort resolves with is free and every port from
\* the preferred one up to it is occupied; createServer never fails to
\* listen, and once it listens it does so on the port it reports, which no
\* other process holds.
C23_NextFreePort ==
  /\ [][(listening = "probing" /\ listening' = "found")
          => /\ probing' \notin occupied
             /\ \A q \in PreferredPort..(probing' - 1) : q \in occupied]_vars
  /\ [](listening # "failed")
  /\ [](listening = "yes" => probing \notin occupied)

\* C24: every payload the endpoint accepted is answered in the end, with 200
\* or 400, and an answer once sent stays as it is.
C24_EveryPayloadAnswered ==
  /\ \A h \in 1..MaxPayloads :
       (handlers[h].pc # "idle")
         ~> (handlers[h].pc = "done" /\ handlers[h].answer \in {200, 400})
  /\ [][\A h \in 1..MaxPayloads :
          handlers[h].pc = "done" => handlers'[h] = handlers[h]]_vars

\* the step is the work of one method of the Store: loadData, addRequest,
\* addCodeReference or removeCodeReference
C25_StoreMethod ==
  \/ hosts' = Deserialize(disk)
  \/ \E h \in 1..arrived, ok \in BOOLEAN :
       /\ handlers[h].pc = "awaitParsed"
       /\ addRequest(Parsed(handlers[h].payload, h), ok)
  \/ \E c \in Stored, text \in Texts, ok \in BOOLEAN :
       addCodeReference(c[1], c[2], c[3], c[4], NewCodeRef(text), ok)
  \/ \E c \in Stored, refIndex \in (-1..MaxRefs), ok \in BOOLEAN :
       removeCodeReference(c[1], c[2], c[3], c[4], refIndex, ok)

\* C25: every step that changes the index is the work of a method of the
\* Store; the commands that add, visit, validate or remove code references
\* change it in no other way.
C25_OnlyStoreMutates ==
  [][hosts' # hosts => C25_StoreMethod]_vars

\* C27: a validation that finishes on a stored reference stamps validatedAt
\* on it with the current instant, whatever it found: equal text, changed
\* text, a missing line range, a missing file, or a document that cannot be
\* opened.
C27_AlwaysStamped ==
  [][\A file \in FileStates :
       (/\ validation # Undefined
        /\ RefResolves(validation)
        /\ Idle
        /\ validation' = Undefined
        /\ validateCodeReference(validation, file, TRUE)
        /\ UNCHANGED <<lastRun, lastCount, outcome, initialized, changeListeners, now,
                       activated, serverVars, locationVars, panel, portVars>>)
         => C20_TargetAfter.validatedAt = ToISOString(NewDate)]_vars

\* C26: a step of the ingestion handler keeps every bucket with its
\* exchanges in their places and unchanged (timestamp, notes, customName and
\* code references), adding at most one exchange without code references at
\* the end of one bucket, and keeps the notes of every endpoint; the index
\* changes only for a payload that parsed, and no exchange of a payload that
\* did not parse is stored.
C26_IngestionFrame ==
  /\ [][(Respond({TRUE}) \/ RespondError)
          => /\ \A b \in AllBuckets(hosts) :
                  /\ b \in AllBuckets(hosts')
                  /\ IsPrefix(Bucket(b[1], b[2], b[3]),
                              hosts'[b[1]].endpoints[b[2]].methods[b[3]])
                  /\ hosts'[b[1]].endpoints[b[2]].notes = hosts[b[1]].endpoints[b[2]].notes
             /\ TotalExchanges(hosts') <= TotalExchanges(hosts) + 1
             /\ \A x \in AllExchanges(hosts') \ AllExchanges(hosts) :
                  x.codeReferences = Undefined
             /\ hosts' # hosts
                  => \E h \in 1..arrived :
                       /\ handlers[h].pc = "awaitParsed"
                       /\ handlers'[h].pc = "done"
                       /\ PayloadParses(h)]_vars
  /\ [](\A x \in AllExchanges(hosts) : PayloadParses(x.request.arrival))

\* C26's case: a capture was stored behind an exchange that has notes and a
\* code reference, in an endpoint that has notes
C26_Witness ==
  /\ HasMethod(GoodHost, Pathname(UrlA), "GET")
  /\ hosts[GoodHost].endpoints[Pathname(UrlA)].notes = "n"
  /\ LET bucket == Bucket(GoodHost, Pathname(UrlA), "GET")
     IN  /\ Len(bucket) = 2
         /\ bucket[1].notes = "n"
         /\ bucket[1].codeReferences # Undefined
         /\ bucket[2].notes = ""
         /\ bucket[2].codeReferences = Undefined
         /\ bucket[1].request.arrival < bucket[2].request.arrival

\* arrival number of the exchange the panel's coordinates designate, 0
\* when they designate none
C28_Designated ==
  IF panel # Undefined
     /\ Resolves(panel.host, panel.endpoint, panel.method, panel.requestIndex)
  THEN Bucket(panel.host, panel.endpoint, panel.method)[panel.requestIndex + 1]
         .request.arrival
  ELSE 0

\* C28: while a panel is open and the exchange its captured index
\* designates stays in the index, the index goes on designating that
\* exchange, whatever is added to or deleted from the index, and a notes
\* update or a code-reference removal sent by the panel leaves every other
\* exchange as it was.
C28_PanelKeepsItsExchange ==
  /\ [][(/\ panel # Undefined
          /\ panel' = panel
          /\ \E x \in AllExchanges(hosts') : x.request.arrival = C28_Designated)
          => C28_Designated' = C28_Designated]_vars
  /\ [][(PanelUpdateRequestNotes({TRUE}) \/ PanelRemoveCodeReference({TRUE}))
          => \A x \in AllExchanges(hosts) :
               x.request.arrival # panel.data => x \in AllExchanges(hosts')]_vars

\* data files that cannot be read or do not hold a document of the index
C29_InvalidFiles == {Truncated, Unreadable, ForeignDocument}

\* C29: a start over a data file that cannot be read or is not a valid
\* document leaves the index empty, marks the Store initialized and leaves
\* the file as it is; such a file changes only by being overwritten with the
\* serialization of the index.
C29_InvalidFileGivesEmptyIndex ==
  /\ [][((Activate \/ Restart) /\ disk \in C29_InvalidFiles)
          => (hosts' = EmptyMap /\ initialized' /\ disk' = disk)]_vars
  /\ [][(disk \in C29_InvalidFiles /\ disk' # disk) => disk' = Serialize(hosts')]_vars

====
